---- MODULE Spec2Model ----
(***************************************************************************)
(* Horn State Synchronizer of the integrated car controller                *)
(* (src/integrated_car_controller.py): the digital twin record, the serial *)
(* command channel, the Tk foreground thread and the auto-sync worker      *)
(* threads it starts.                                                      *)
(*                                                                         *)
(* Granularity.  The Tk main thread runs one callback at a time; a         *)
(* callback is atomic except where it blocks: inside                       *)
(* serial_connection.write (fg.pc = "writing"), inside Thread.join         *)
(* (fg.pc = "joining") and inside time.sleep(2) of connect_arduino         *)
(* (fg.pc = "connecting").  A worker thread runs auto_sync_worker and is   *)
(* interleaved with the foreground at every shared read or write.          *)
(* Time is abstracted: a serial write may succeed or raise, and a          *)
(* join(timeout=1) may return because the thread ended or because the      *)
(* second elapsed (a tick lasts up to write_timeout + sleep = 2 s).        *)
(*                                                                         *)
(* The stand-alone buzzer controller (src/arduino_buzzer_controller.py) is *)
(* a second program on the same command channel; a run is a run of one of  *)
(* the two programs (app), and the buzzer program is single-threaded, so   *)
(* each of its callbacks is one step.                                      *)
(*                                                                         *)
(* The HTTP twin store (src/src/app.py, routes /mongodb/things) is a third *)
(* program, specified by StoreSpec: the things collection of MongoDB, the  *)
(* requests being handled and the response last sent.  Each MongoDB call   *)
(* (insert_one, find_one, replace_one, update_one, delete_one) is atomic;  *)
(* a handler that makes two calls (PUT, PATCH, and the script              *)
(* insert_car_twin_mongodb.py) is two steps that other requests may come   *)
(* between.  Requests carry a well-formed body and MongoDB is reachable.   *)
(***************************************************************************)
EXTENDS Integers, Sequences, FiniteSets, Bags, TLC

MaxThreads == 2
MaxClock == 3
MaxRequests == 2      \* requests between their two MongoDB calls
MaxRevision == 2      \* cap on _revision

VARIABLES
    twin,                 \* CarDigitalTwin.data (the fields the controller uses)
    clock,                \* logical datetime.now(): one instant per twin write
    serial_connection,    \* "none" (None), "open", "closed"
    connected,
    hardware_horn_state,
    auto_sync_var,        \* the Tk BooleanVar of the "Enable Auto-Sync" checkbox
    auto_sync_enabled,
    sync_thread,          \* the Thread started last: its position in
                          \* auto_sync_worker and its locals (pc "none" is None)
    sync_running,
    orphans,              \* the bag of running threads sync_thread no longer names
    fg,                   \* the Tk main thread: the callback it is blocked in
    out,                  \* what the last finished callback reported
    app,                  \* the program that runs: the class main() builds
    buzzer,               \* the fields of ArduinoBuzzerController
    things_collection,    \* db.things: the set of stored documents
    requests,             \* the bag of requests between find_one and their write
    response              \* the response (or script outcome) of the step just taken

vars == <<twin, clock, serial_connection, connected, hardware_horn_state,
          auto_sync_var, auto_sync_enabled, sync_thread, sync_running,
          orphans, fg, out, app, buzzer, things_collection, requests, response>>

\* the state of the HTTP twin store
storeVars == <<things_collection, requests, response>>

\* the fields of IntegratedCarController
integratedVars == <<twin, clock, serial_connection, connected, hardware_horn_state,
                    auto_sync_var, auto_sync_enabled, sync_thread, sync_running,
                    orphans, fg>>

twinVars == <<twin, clock>>
connVars == <<serial_connection, connected>>
syncVars == <<auto_sync_var, auto_sync_enabled, sync_thread, sync_running, orphans>>

----------------------------------------------------------------------------
(* CarDigitalTwin *)

\* get_horn_status: the stored state, "UNKNOWN" when the path is absent
get_horn_status(t) == IF t.loaded THEN t.state ELSE "UNKNOWN"

\* a save_digital_twin that dumps a document rebuilt from the horn status and
\* the metadata, without the vehicle and hardware descriptions
save_digital_twin_rebuilt(t, now) ==
    [t EXCEPT !.modified = now, !.revision = @ + 1,
              !.thingId = "-",
              !.attributes = [manufacturer |-> "-", model |-> "-", lastModified |-> now],
              !.hardware = [pin |-> "-"]]

\* save_digital_twin: the metadata it rewrites before dumping the whole of data
save_digital_twin(t, now) ==
    [t EXCEPT !.modified = now, !.revision = @ + 1,
              !.attributes.lastModified = now]

\* a set_horn_status that stamps lastActivated on ON but never counts
set_horn_status_uncounted(t, status, now) ==
    IF ~t.loaded THEN t
    ELSE LET t1 == [t EXCEPT !.state = status]
             t2 == IF status = "ON"
                   THEN [t1 EXCEPT !.lastActivated = now]
                   ELSE t1
         IN  save_digital_twin(t2, now)

\* a set_horn_status that stamps lastActivated on every write, ON or OFF
set_horn_status_stamping(t, status, now) ==
    IF ~t.loaded THEN t
    ELSE LET t1 == [t EXCEPT !.state = status, !.lastActivated = now]
             t2 == IF status = "ON"
                   THEN [t1 EXCEPT !.activationCount = @ + 1]
                   ELSE t1
         IN  save_digital_twin(t2, now)

\* a set_horn_status that counts an activation only on an OFF -> ON transition
set_horn_status_counting_transitions(t, status, now) ==
    IF ~t.loaded THEN t
    ELSE LET t1 == [t EXCEPT !.state = status]
             t2 == IF status = "ON" /\ t.state # "ON"
                   THEN [t1 EXCEPT !.lastActivated = now,
                                   !.activationCount = @ + 1]
                   ELSE t1
         IN  save_digital_twin(t2, now)

\* a set_horn_status that does not write when the state is the one asked for
set_horn_status_skipping_noops(t, status, now) ==
    IF ~t.loaded \/ t.state = status THEN t
    ELSE LET t1 == [t EXCEPT !.state = status]
             t2 == IF status = "ON"
                   THEN [t1 EXCEPT !.lastActivated = now,
                                   !.activationCount = @ + 1]
                   ELSE t1
         IN  save_digital_twin(t2, now)

\* set_horn_status: the record after the call (the KeyError path changes nothing)
set_horn_status(t, status, now) ==
    IF ~t.loaded THEN t
    ELSE LET t1 == [t EXCEPT !.state = status]
             t2 == IF status = "ON"
                   THEN [t1 EXCEPT !.lastActivated = now,
                                   !.activationCount = @ + 1]
                   ELSE t1
         IN  save_digital_twin(t2, now)

\* set_horn_status: its return value; ioOk is whether the file write went through
set_horn_status_result(t, ioOk) == t.loaded /\ ioOk

\* the twin write as a step of a callback
WriteTwin(status) ==
    /\ twin' = set_horn_status(twin, status, clock)
    /\ clock' = IF twin.loaded THEN clock + 1 ELSE clock

CanWriteTwin == twin.loaded => clock < MaxClock

----------------------------------------------------------------------------
(* helpers of the controller *)

\* the two commands the wrong way round
Cmd_swapped(status) == IF status = "ON" THEN "0" ELSE "1"

Cmd(status) == IF status = "ON" THEN "1" ELSE "0"
HwOf(cmd) == (cmd = "1")
HwState == IF hardware_horn_state THEN "ON" ELSE "OFF"

\* send_command: the guard before the write
send_command_guard == connected /\ serial_connection # "none"

\* what a step can see of the twin and of hardware_horn_state before it acts
Pre == [state |-> get_horn_status(twin),
        count |-> twin.activationCount,
        last |-> twin.lastActivated,
        rev |-> twin.revision,
        hw |-> hardware_horn_state]
NoPre == [state |-> "-", count |-> 0, last |-> 0, rev |-> 0, hw |-> FALSE]

\* fg: where the main thread is, with the locals of the callback it is in and
\* hw0, hardware_horn_state as it was when the callback was called
Idle == [pc |-> "idle", op |-> "none", cmd |-> "-", storeOk |-> FALSE, hw0 |-> FALSE]
Blocked(pc, op, cmd, storeOk) ==
    [pc |-> pc, op |-> op, cmd |-> cmd, storeOk |-> storeOk,
     hw0 |-> IF pc = "writing" THEN hardware_horn_state ELSE FALSE]

\* out: what the step just taken did (its caller, the part of it, whether it
\* called set_horn_status and with what result, the result of the send, the
\* command, the activity-log line), the snapshot Pre taken before the step and
\* hw0, hardware_horn_state as it was when the callback was called
NoOut == [op |-> "none", step |-> "none", wrote |-> FALSE, storeOk |-> FALSE,
          sendRes |-> "none", cmd |-> "-", report |-> "none", pre |-> NoPre,
          hw0 |-> FALSE]

Report(op, step, wrote, storeOk, sendRes, cmd, report) ==
    [op |-> op, step |-> step, wrote |-> wrote, storeOk |-> storeOk,
     sendRes |-> sendRes, cmd |-> cmd, report |-> report, pre |-> Pre,
     hw0 |-> IF fg.pc = "writing" /\ op = fg.op THEN fg.hw0 ELSE hardware_horn_state]

Res(ok) == IF ok THEN "ok" ELSE "fail"

None == [pc |-> "none", cmd |-> "-", res |-> FALSE]
Dead == [pc |-> "dead", cmd |-> "-", res |-> FALSE]
Loop == [pc |-> "loop", cmd |-> "-", res |-> FALSE]

\* load_digital_twin: data/car_digital_twin.json read into data, or data left {}
\* when the file is missing (loaded = FALSE)
NoResponse == [op |-> "none", thingId |-> "-", status |-> 0]

\* ArduinoBuzzerController.__init__
BuzzerInit == [serial_connection |-> "none", is_connected |-> FALSE,
               buzzer_state |-> "OFF", destroyed |-> FALSE]

\* the rest of the document: thingId, attributes.metadata (manufacturer, model,
\* lastModified) and the hardware description of the horn, absent ("-") when
\* data is {}
InitialTwin(loaded, state) ==
    [loaded |-> loaded, state |-> state, activationCount |-> 0,
     lastActivated |-> 0, revision |-> 1, modified |-> 0,
     thingId |-> IF loaded THEN "car:horn-car-001" ELSE "-",
     attributes |-> [manufacturer |-> IF loaded THEN "manufacturer" ELSE "-",
                     model |-> IF loaded THEN "model" ELSE "-",
                     lastModified |-> 0],
     hardware |-> [pin |-> IF loaded THEN "pin" ELSE "-"]]

\* every program as its constructor (or an empty database) leaves it
ProgramsIdle ==
    /\ clock = 1
    /\ serial_connection = "none"
    /\ connected = FALSE
    /\ hardware_horn_state = FALSE
    /\ auto_sync_var = FALSE
    /\ auto_sync_enabled = FALSE
    /\ sync_thread = None
    /\ sync_running = FALSE
    /\ orphans = EmptyBag
    /\ fg = Idle
    /\ out = NoOut
    /\ buzzer = BuzzerInit
    /\ things_collection = {}
    /\ requests = EmptyBag
    /\ response = NoResponse

Init ==
    /\ \/ \E s \in {"OFF", "ON"} : twin = InitialTwin(TRUE, s)
       \/ twin = InitialTwin(FALSE, "OFF")
    /\ ProgramsIdle
    /\ app \in {"IntegratedCarController", "ArduinoBuzzerController"}

----------------------------------------------------------------------------
(* Control methods, run by the Tk main thread *)

\* activate_horn_dt_only / deactivate_horn_dt_only up to the serial write
\* an activate/deactivate_horn_dt_only that pushes to the hardware whatever
\* set_horn_status returned
horn_dt_only_pushing(op, status, ioOk) ==
    /\ fg.pc = "idle"
    /\ CanWriteTwin
    /\ WriteTwin(status)
    /\ IF connected
       THEN IF send_command_guard
            THEN /\ fg' = Blocked("writing", op, Cmd(status), TRUE)
                 /\ out' = Report(op, "call", TRUE, set_horn_status_result(twin, ioOk),
                                  "none", Cmd(status), "none")
            ELSE /\ fg' = Idle
                 /\ out' = Report(op, "return", TRUE, set_horn_status_result(twin, ioOk),
                                  "fail", Cmd(status), "dt_ok_hw_sync_failed")
       ELSE /\ fg' = Idle
            /\ out' = Report(op, "return", TRUE, set_horn_status_result(twin, ioOk),
                             "none", "-", "dt_ok_hw_not_connected")
    /\ UNCHANGED <<connVars, hardware_horn_state, syncVars>>

horn_dt_only(op, status, ioOk) ==
    /\ fg.pc = "idle"
    /\ CanWriteTwin
    /\ WriteTwin(status)
    /\ IF set_horn_status_result(twin, ioOk)
       THEN IF connected
            THEN IF send_command_guard
                 THEN /\ fg' = Blocked("writing", op, Cmd(status), TRUE)
                      /\ out' = Report(op, "call", TRUE, TRUE, "none", Cmd(status), "none")
                 ELSE /\ fg' = Idle
                      /\ out' = Report(op, "return", TRUE, TRUE, "fail", Cmd(status),
                                       "dt_ok_hw_sync_failed")
            ELSE /\ fg' = Idle
                 /\ out' = Report(op, "return", TRUE, TRUE, "none", "-",
                                  "dt_ok_hw_not_connected")
       ELSE /\ fg' = Idle
            /\ out' = Report(op, "return", TRUE, FALSE, "none", "-",
                             "error_dt_update_failed")
    /\ UNCHANGED <<connVars, hardware_horn_state, syncVars>>

activate_horn_dt_only(ioOk) == horn_dt_only("activate_horn_dt_only", "ON", ioOk)

deactivate_horn_dt_only(ioOk) == horn_dt_only("deactivate_horn_dt_only", "OFF", ioOk)

\* an activate/deactivate_horn_dt_only that takes every send for a success
horn_dt_only_sent_optimistic(ok) ==
    /\ fg.pc = "writing"
    /\ fg.op \in {"activate_horn_dt_only", "deactivate_horn_dt_only"}
    /\ ok => serial_connection = "open"
    /\ hardware_horn_state' = HwOf(fg.cmd)
    /\ out' = Report(fg.op, "return", FALSE, TRUE, Res(ok), fg.cmd, "dt_ok_hw_synced")
    /\ fg' = Idle
    /\ UNCHANGED <<twinVars, connVars, syncVars>>

\* ... and from the return of send_command on
horn_dt_only_sent(ok) ==
    /\ fg.pc = "writing"
    /\ fg.op \in {"activate_horn_dt_only", "deactivate_horn_dt_only"}
    /\ ok => serial_connection = "open"
    /\ hardware_horn_state' = IF ok THEN HwOf(fg.cmd) ELSE hardware_horn_state
    /\ out' = Report(fg.op, "return", FALSE, TRUE, Res(ok), fg.cmd,
                     IF ok THEN "dt_ok_hw_synced" ELSE "dt_ok_hw_sync_failed")
    /\ fg' = Idle
    /\ UNCHANGED <<twinVars, connVars, syncVars>>

\* turn_horn_on_hw_only / turn_horn_off_hw_only up to the serial write
\* (their buttons are enabled only while connected)
horn_hw_only(op, status) ==
    /\ fg.pc = "idle"
    /\ connected
    /\ CanWriteTwin
    /\ IF send_command_guard
       THEN /\ fg' = Blocked("writing", op, Cmd(status), FALSE)
            /\ out' = Report(op, "call", FALSE, FALSE, "none", Cmd(status), "none")
       ELSE /\ fg' = Idle
            /\ out' = Report(op, "return", FALSE, FALSE, "fail", Cmd(status), "none")
    /\ UNCHANGED <<twinVars, connVars, hardware_horn_state, syncVars>>

turn_horn_on_hw_only == horn_hw_only("turn_horn_on_hw_only", "ON")

turn_horn_off_hw_only == horn_hw_only("turn_horn_off_hw_only", "OFF")

\* a turn_horn_on/off_hw_only that writes the twin whatever the send returned
horn_hw_only_sent_writing_through(ok, ioOk) ==
    /\ fg.pc = "writing"
    /\ fg.op \in {"turn_horn_on_hw_only", "turn_horn_off_hw_only"}
    /\ ok => serial_connection = "open"
    /\ hardware_horn_state' = IF ok THEN HwOf(fg.cmd) ELSE hardware_horn_state
    /\ WriteTwin(IF fg.cmd = "1" THEN "ON" ELSE "OFF")
    /\ out' = Report(fg.op, "return", TRUE, set_horn_status_result(twin, ioOk),
                     Res(ok), fg.cmd,
                     IF set_horn_status_result(twin, ioOk)
                     THEN "hw_ok_dt_synced" ELSE "hw_ok_dt_sync_failed")
    /\ fg' = Idle
    /\ UNCHANGED <<connVars, syncVars>>

horn_hw_only_sent(ok, ioOk) ==
    /\ fg.pc = "writing"
    /\ fg.op \in {"turn_horn_on_hw_only", "turn_horn_off_hw_only"}
    /\ ok => serial_connection = "open"
    /\ IF ok
       THEN /\ hardware_horn_state' = HwOf(fg.cmd)
            /\ WriteTwin(IF fg.cmd = "1" THEN "ON" ELSE "OFF")
            /\ out' = Report(fg.op, "return", TRUE, set_horn_status_result(twin, ioOk),
                             "ok", fg.cmd,
                             IF set_horn_status_result(twin, ioOk)
                             THEN "hw_ok_dt_synced" ELSE "hw_ok_dt_sync_failed")
       ELSE /\ UNCHANGED <<hardware_horn_state, twinVars>>
            /\ out' = Report(fg.op, "return", FALSE, FALSE, "fail", fg.cmd,
                             "communication_error")
    /\ fg' = Idle
    /\ UNCHANGED <<connVars, syncVars>>

\* turn_horn_on_integrated / turn_horn_off_integrated up to the serial write
horn_integrated(op, status, ioOk) ==
    /\ fg.pc = "idle"
    /\ connected
    /\ CanWriteTwin
    /\ WriteTwin(status)
    /\ IF connected /\ send_command_guard
       THEN /\ fg' = Blocked("writing", op, Cmd(status),
                             set_horn_status_result(twin, ioOk))
            /\ out' = Report(op, "call", TRUE, set_horn_status_result(twin, ioOk),
                             "none", Cmd(status), "none")
            /\ UNCHANGED hardware_horn_state
       ELSE /\ fg' = Idle
            /\ hardware_horn_state' =
                   IF set_horn_status_result(twin, ioOk) /\ connected
                   THEN HwOf(Cmd(status)) ELSE hardware_horn_state
            /\ out' = Report(op, "return", TRUE, set_horn_status_result(twin, ioOk),
                             IF connected THEN "fail" ELSE "none", Cmd(status),
                             IF set_horn_status_result(twin, ioOk)
                             THEN "both_dt_and_hw" ELSE "error_dt_update_failed")
    /\ UNCHANGED <<connVars, syncVars>>

turn_horn_on_integrated(ioOk) == horn_integrated("turn_horn_on_integrated", "ON", ioOk)

turn_horn_off_integrated(ioOk) == horn_integrated("turn_horn_off_integrated", "OFF", ioOk)

\* success_hw is computed and never read
horn_integrated_sent(ok) ==
    /\ fg.pc = "writing"
    /\ fg.op \in {"turn_horn_on_integrated", "turn_horn_off_integrated"}
    /\ ok => serial_connection = "open"
    /\ hardware_horn_state' = IF fg.storeOk /\ connected
                              THEN HwOf(fg.cmd) ELSE hardware_horn_state
    /\ out' = Report(fg.op, "return", FALSE, fg.storeOk, Res(ok), fg.cmd,
                     IF fg.storeOk THEN "both_dt_and_hw" ELSE "error_dt_update_failed")
    /\ fg' = Idle
    /\ UNCHANGED <<twinVars, connVars, syncVars>>

\* sync_dt_to_hardware up to the serial write
sync_dt_to_hardware ==
    /\ fg.pc = "idle"
    /\ IF ~connected
       THEN /\ fg' = Idle
            /\ out' = Report("sync_dt_to_hardware", "return", FALSE, FALSE, "none", "-",
                             "warning_not_connected")
       ELSE IF send_command_guard
            THEN /\ fg' = Blocked("writing", "sync_dt_to_hardware",
                                  Cmd(get_horn_status(twin)), FALSE)
                 /\ out' = Report("sync_dt_to_hardware", "call", FALSE, FALSE, "none",
                                  Cmd(get_horn_status(twin)), "none")
            ELSE /\ fg' = Idle
                 /\ out' = Report("sync_dt_to_hardware", "return", FALSE, FALSE, "fail",
                                  Cmd(get_horn_status(twin)), "none")
    /\ UNCHANGED <<twinVars, connVars, hardware_horn_state, syncVars>>

\* a sync_dt_to_hardware that sends and forgets to record the new state
sync_dt_to_hardware_sent_unrecorded(ok) ==
    /\ fg.pc = "writing"
    /\ fg.op = "sync_dt_to_hardware"
    /\ ok => serial_connection = "open"
    /\ out' = Report(fg.op, "return", FALSE, FALSE, Res(ok), fg.cmd,
                     IF ok THEN "synced_dt_to_hw" ELSE "communication_error")
    /\ fg' = Idle
    /\ UNCHANGED <<twinVars, connVars, hardware_horn_state, syncVars>>

\* a sync_dt_to_hardware that stores the state it pushed back into the twin
sync_dt_to_hardware_sent_writing_back(ok) ==
    /\ fg.pc = "writing"
    /\ fg.op = "sync_dt_to_hardware"
    /\ ok => serial_connection = "open"
    /\ hardware_horn_state' = IF ok THEN HwOf(fg.cmd) ELSE hardware_horn_state
    /\ IF ok /\ CanWriteTwin
       THEN WriteTwin(IF fg.cmd = "1" THEN "ON" ELSE "OFF")
       ELSE UNCHANGED twinVars
    /\ out' = Report(fg.op, "return", FALSE, FALSE, Res(ok), fg.cmd,
                     IF ok THEN "synced_dt_to_hw" ELSE "communication_error")
    /\ fg' = Idle
    /\ UNCHANGED <<connVars, syncVars>>

sync_dt_to_hardware_sent(ok) ==
    /\ fg.pc = "writing"
    /\ fg.op = "sync_dt_to_hardware"
    /\ ok => serial_connection = "open"
    /\ hardware_horn_state' = IF ok THEN HwOf(fg.cmd) ELSE hardware_horn_state
    /\ out' = Report(fg.op, "return", FALSE, FALSE, Res(ok), fg.cmd,
                     IF ok THEN "synced_dt_to_hw" ELSE "communication_error")
    /\ fg' = Idle
    /\ UNCHANGED <<twinVars, connVars, syncVars>>

\* sync_hardware_to_dt
sync_hardware_to_dt(ioOk) ==
    /\ fg.pc = "idle"
    /\ IF ~connected
       THEN /\ out' = Report("sync_hardware_to_dt", "return", FALSE, FALSE, "none", "-",
                             "warning_not_connected")
            /\ UNCHANGED twinVars
       ELSE /\ CanWriteTwin
            /\ WriteTwin(HwState)
            /\ out' = Report("sync_hardware_to_dt", "return", TRUE,
                             set_horn_status_result(twin, ioOk), "none", "-",
                             IF set_horn_status_result(twin, ioOk)
                             THEN "synced_hw_to_dt" ELSE "error_dt_update_failed")
    /\ fg' = Idle
    /\ UNCHANGED <<connVars, hardware_horn_state, syncVars>>

----------------------------------------------------------------------------
(* Synchronization methods *)

Alive(r) == r.pc \notin {"none", "dead"}

\* the threads running auto_sync_worker
LiveWorkers == BagCardinality(orphans) + (IF Alive(sync_thread) THEN 1 ELSE 0)

\* start_auto_sync: the Thread object sync_thread named is dropped; if it still
\* runs it runs on unnamed
start_auto_sync ==
    IF ~sync_running
    THEN /\ LiveWorkers < MaxThreads
         /\ sync_running' = TRUE
         /\ orphans' = IF Alive(sync_thread)
                       THEN orphans (+) SetToBag({sync_thread}) ELSE orphans
         /\ sync_thread' = Loop
    ELSE UNCHANGED <<sync_running, orphans, sync_thread>>

\* stop_auto_sync up to the join
stop_auto_sync ==
    /\ sync_running' = FALSE
    /\ UNCHANGED <<orphans, sync_thread>>

\* toggle_auto_sync, v being what auto_sync_var.get() returns
toggle_auto_sync(v) ==
    /\ auto_sync_enabled' = v
    /\ IF v /\ connected THEN start_auto_sync ELSE stop_auto_sync

\* whether toggle_auto_sync(v) reaches sync_thread.join(timeout=1)
toggle_joins(v) == ~(v /\ connected) /\ sync_thread # None

\* the user clicks the "Enable Auto-Sync" checkbox: Tk flips the variable and
\* calls toggle_auto_sync
click_auto_sync ==
    /\ fg.pc = "idle"
    /\ auto_sync_var' = ~auto_sync_var
    /\ toggle_auto_sync(~auto_sync_var)
    /\ IF toggle_joins(~auto_sync_var)
       THEN /\ fg' = Blocked("joining", "toggle_auto_sync", "-", FALSE)
            /\ out' = Report("toggle_auto_sync", "call", FALSE, FALSE, "none", "-", "none")
       ELSE /\ fg' = Idle
            /\ out' = Report("toggle_auto_sync", "return", FALSE, FALSE, "none", "-",
                             IF ~auto_sync_var /\ connected
                             THEN "auto_sync_enabled" ELSE "auto_sync_disabled")
    /\ UNCHANGED <<twinVars, connVars, hardware_horn_state>>

----------------------------------------------------------------------------
(* Arduino/Hardware methods *)

\* connect_arduino up to time.sleep(2); portOk is whether serial.Serial opened
connect_arduino(portOk) ==
    /\ fg.pc = "idle"
    /\ ~connected
    /\ IF portOk
       THEN /\ serial_connection' = "open"
            /\ fg' = Blocked("connecting", "connect_arduino", "-", FALSE)
            /\ out' = Report("connect_arduino", "call", FALSE, FALSE, "none", "-", "none")
       ELSE /\ UNCHANGED serial_connection
            /\ fg' = Idle
            /\ out' = Report("connect_arduino", "return", FALSE, FALSE, "none", "-",
                             "connection_error")
    /\ UNCHANGED <<twinVars, connected, hardware_horn_state, syncVars>>

\* a connect_arduino that starts from a silent horn instead of the twin state
connect_arduino_ready_resetting ==
    /\ fg.pc = "connecting"
    /\ connected' = TRUE
    /\ hardware_horn_state' = FALSE
    /\ fg' = Idle
    /\ out' = Report("connect_arduino", "return", FALSE, FALSE, "none", "-", "connected")
    /\ UNCHANGED <<twinVars, serial_connection, syncVars>>

\* connect_arduino after the sleep
connect_arduino_ready ==
    /\ fg.pc = "connecting"
    /\ connected' = TRUE
    /\ hardware_horn_state' = (get_horn_status(twin) = "ON")
    /\ fg' = Idle
    /\ out' = Report("connect_arduino", "return", FALSE, FALSE, "none", "-", "connected")
    /\ UNCHANGED <<twinVars, serial_connection, syncVars>>

\* disconnect_arduino from the close on
disconnect_close ==
    /\ serial_connection' = IF serial_connection = "open" THEN "closed"
                            ELSE serial_connection
    /\ connected' = FALSE

\* disconnect_arduino up to the close, or up to the join inside toggle_auto_sync;
\* after is the state of the main thread once disconnect_arduino has returned
disconnect_from(op, after) ==
    IF auto_sync_enabled
    THEN /\ toggle_auto_sync(auto_sync_var)
         /\ UNCHANGED auto_sync_var
         /\ IF toggle_joins(auto_sync_var)
            THEN /\ fg' = Blocked("joining", op, "-", FALSE)
                 /\ out' = Report(op, "call", FALSE, FALSE, "none", "-", "none")
                 /\ UNCHANGED connVars
            ELSE /\ disconnect_close
                 /\ fg' = after
                 /\ out' = Report(op, "return", FALSE, FALSE, "none", "-", "disconnected")
    ELSE /\ disconnect_close
         /\ fg' = after
         /\ out' = Report(op, "return", FALSE, FALSE, "none", "-", "disconnected")
         /\ UNCHANGED syncVars

\* a disconnect_arduino that resets the observed state to OFF
disconnect_arduino_resetting ==
    /\ fg.pc = "idle"
    /\ connected
    /\ disconnect_from("disconnect_arduino", Idle)
    /\ hardware_horn_state' = FALSE
    /\ UNCHANGED twinVars

disconnect_arduino ==
    /\ fg.pc = "idle"
    /\ connected
    /\ disconnect_from("disconnect_arduino", Idle)
    /\ UNCHANGED <<twinVars, hardware_horn_state>>

Closing == Blocked("closing", "on_closing", "-", FALSE)
Destroying == Blocked("destroying", "on_closing", "-", FALSE)
Destroyed == Blocked("destroyed", "on_closing", "-", FALSE)

\* on_closing: its first statement, the toggle
on_closing ==
    /\ fg.pc = "idle"
    /\ IF auto_sync_enabled
       THEN /\ toggle_auto_sync(auto_sync_var)
            /\ UNCHANGED auto_sync_var
            /\ fg' = IF toggle_joins(auto_sync_var)
                     THEN Blocked("joining", "on_closing", "-", FALSE)
                     ELSE Closing
       ELSE /\ fg' = Closing
            /\ UNCHANGED syncVars
    /\ out' = Report("on_closing", "call", FALSE, FALSE, "none", "-", "none")
    /\ UNCHANGED <<twinVars, connVars, hardware_horn_state>>

\* on_closing: its second statement, the disconnect
on_closing_disconnect ==
    /\ fg.pc = "closing"
    /\ IF connected
       THEN disconnect_from("on_closing_disconnect", Destroying)
       ELSE /\ fg' = Destroying
            /\ out' = Report("on_closing", "call", FALSE, FALSE, "none", "-", "none")
            /\ UNCHANGED <<connVars, syncVars>>
    /\ UNCHANGED <<twinVars, hardware_horn_state>>

\* on_closing: root.destroy(); mainloop returns and the process exits, which
\* ends its daemon threads
root_destroy ==
    /\ fg.pc = "destroying"
    /\ fg' = Destroyed
    /\ sync_thread' = IF Alive(sync_thread) THEN Dead ELSE sync_thread
    /\ orphans' = EmptyBag
    /\ out' = Report("on_closing", "return", FALSE, FALSE, "none", "-", "destroyed")
    /\ UNCHANGED <<twinVars, connVars, hardware_horn_state, auto_sync_var,
                   auto_sync_enabled, sync_running>>

\* sync_thread.join(timeout=1) returns: the thread has ended (timedOut = FALSE)
\* or the second has elapsed with the thread still running (timedOut = TRUE);
\* the callback that called stop_auto_sync goes on
join_returns(timedOut) ==
    /\ fg.pc = "joining"
    /\ timedOut <=> Alive(sync_thread)
    /\ CASE fg.op = "toggle_auto_sync" ->
              /\ fg' = Idle
              /\ out' = Report(fg.op, "return", FALSE, FALSE, "none", "-",
                               "auto_sync_disabled")
              /\ UNCHANGED connVars
         [] fg.op = "on_closing" ->
              /\ fg' = Closing
              /\ out' = Report(fg.op, "call", FALSE, FALSE, "none", "-", "none")
              /\ UNCHANGED connVars
         [] fg.op = "disconnect_arduino" ->
              /\ disconnect_close
              /\ fg' = Idle
              /\ out' = Report(fg.op, "return", FALSE, FALSE, "none", "-", "disconnected")
         [] fg.op = "on_closing_disconnect" ->
              /\ disconnect_close
              /\ fg' = Destroying
              /\ out' = Report(fg.op, "return", FALSE, FALSE, "none", "-", "disconnected")
    /\ UNCHANGED <<twinVars, hardware_horn_state, syncVars>>

join_thread_ended == join_returns(FALSE)

join_timed_out == join_returns(TRUE)

----------------------------------------------------------------------------
(* auto_sync_worker, run by thread t: the one sync_thread names (t.cur) or   *)
(* one of the orphans, t.rec being its position and locals                 *)

WorkerThreads ==
    {[cur |-> TRUE, rec |-> sync_thread]}
    \cup {[cur |-> FALSE, rec |-> r] : r \in BagToSet(orphans)}

\* thread t moves on to position and locals r
Becomes(t, r) ==
    IF t.cur
    THEN /\ sync_thread' = r
         /\ UNCHANGED orphans
    ELSE /\ orphans' = (orphans (-) SetToBag({t.rec}))
                       (+) (IF r.pc = "dead" THEN EmptyBag ELSE SetToBag({r}))
         /\ UNCHANGED sync_thread

WorkerReport(step, sendRes, cmd) ==
    Report("auto_sync_worker", step, FALSE, FALSE, sendRes, cmd, "none")

\* an auto_sync_worker that pushes the twin state on every tick, without
\* comparing it with hardware_horn_state
worker_tick_unconditional(t) ==
    /\ t.rec.pc = "loop"
    /\ IF sync_running /\ connected
       THEN /\ Becomes(t, [pc |-> "send", cmd |-> Cmd(get_horn_status(twin)),
                           res |-> FALSE])
            /\ out' = WorkerReport("tick", "none", Cmd(get_horn_status(twin)))
       ELSE /\ Becomes(t, Dead)
            /\ out' = WorkerReport("exit", "none", "-")
    /\ UNCHANGED <<twinVars, connVars, hardware_horn_state, auto_sync_var,
                   auto_sync_enabled, sync_running, fg>>

\* an auto_sync_worker whose loop never looks at sync_running and connected
worker_tick_uninterruptible(t) ==
    /\ t.rec.pc = "loop"
    /\ IF get_horn_status(twin) # HwState
       THEN /\ Becomes(t, [pc |-> "send", cmd |-> Cmd(get_horn_status(twin)),
                           res |-> FALSE])
            /\ out' = WorkerReport("tick", "none", Cmd(get_horn_status(twin)))
       ELSE /\ Becomes(t, Loop)
            /\ out' = WorkerReport("tick", "none", "-")
    /\ UNCHANGED <<twinVars, connVars, hardware_horn_state, auto_sync_var,
                   auto_sync_enabled, sync_running, fg>>

\* the loop condition and, when it holds, the two reads and the comparison;
\* when the states agree the thread sleeps and comes back here
worker_tick(t) ==
    /\ t.rec.pc = "loop"
    /\ IF sync_running /\ connected
       THEN IF get_horn_status(twin) # HwState
            THEN /\ Becomes(t, [pc |-> "send", cmd |-> Cmd(get_horn_status(twin)),
                                res |-> FALSE])
                 /\ out' = WorkerReport("tick", "none", Cmd(get_horn_status(twin)))
            ELSE /\ Becomes(t, Loop)
                 /\ out' = WorkerReport("tick", "none", "-")
       ELSE /\ Becomes(t, Dead)
            /\ out' = WorkerReport("exit", "none", "-")
    /\ UNCHANGED <<twinVars, connVars, hardware_horn_state, auto_sync_var,
                   auto_sync_enabled, sync_running, fg>>

\* send_command in the worker: the guard, then the write begins
worker_send(t) ==
    /\ t.rec.pc = "send"
    /\ Becomes(t, [t.rec EXCEPT !.pc = IF send_command_guard
                                       THEN "writing" ELSE "sethw"])
    /\ out' = WorkerReport("send", IF send_command_guard THEN "none" ELSE "fail",
                           t.rec.cmd)
    /\ UNCHANGED <<twinVars, connVars, hardware_horn_state, auto_sync_var,
                   auto_sync_enabled, sync_running, fg>>

\* a worker whose send_command tries again when the write raised
worker_sent_retrying(t, ok) ==
    /\ t.rec.pc = "writing"
    /\ ok => serial_connection = "open"
    /\ Becomes(t, [t.rec EXCEPT !.pc = IF ok THEN "sethw" ELSE "send", !.res = ok])
    /\ out' = WorkerReport("sent", Res(ok), t.rec.cmd)
    /\ UNCHANGED <<twinVars, connVars, hardware_horn_state, auto_sync_var,
                   auto_sync_enabled, sync_running, fg>>

\* the write and flush return, or raise
worker_sent(t, ok) ==
    /\ t.rec.pc = "writing"
    /\ ok => serial_connection = "open"
    /\ Becomes(t, [t.rec EXCEPT !.pc = "sethw", !.res = ok])
    /\ out' = WorkerReport("sent", Res(ok), t.rec.cmd)
    /\ UNCHANGED <<twinVars, connVars, hardware_horn_state, auto_sync_var,
                   auto_sync_enabled, sync_running, fg>>

\* an auto_sync_worker that sends and never records what it sent
worker_set_state_forgetful(t) ==
    /\ t.rec.pc = "sethw"
    /\ Becomes(t, Loop)
    /\ out' = WorkerReport("set_state", Res(t.rec.res), t.rec.cmd)
    /\ UNCHANGED <<twinVars, connVars, hardware_horn_state, auto_sync_var,
                   auto_sync_enabled, sync_running, fg>>

\* the assignment to hardware_horn_state that follows send_command, then the sleep
worker_set_state(t) ==
    /\ t.rec.pc = "sethw"
    /\ hardware_horn_state' = HwOf(t.rec.cmd)
    /\ Becomes(t, Loop)
    /\ out' = WorkerReport("set_state", Res(t.rec.res), t.rec.cmd)
    /\ UNCHANGED <<twinVars, connVars, auto_sync_var,
                   auto_sync_enabled, sync_running, fg>>

----------------------------------------------------------------------------
(* ArduinoBuzzerController *)

\* str.encode() of a command: the bytes handed to serial write
encode(command) ==
    CASE command = "1" -> <<49>>
      [] command = "0" -> <<48>>
      [] OTHER -> << >>

BuzzerRuns == app = "ArduinoBuzzerController" /\ ~buzzer.destroyed

\* connect_to_arduino, reached through toggle_connection while not connected
connect_to_arduino(portOk) ==
    /\ BuzzerRuns
    /\ ~buzzer.is_connected
    /\ IF portOk
       THEN /\ buzzer' = [buzzer EXCEPT !.serial_connection = "open",
                                        !.is_connected = TRUE]
            /\ out' = Report("connect_to_arduino", "return", FALSE, FALSE, "none",
                             "-", "connected")
       ELSE /\ UNCHANGED buzzer
            /\ out' = Report("connect_to_arduino", "return", FALSE, FALSE, "none",
                             "-", "connection_error")
    /\ UNCHANGED <<integratedVars, app, storeVars>>

\* disconnect_from_arduino with update_connection_status(False)
disconnected_buzzer ==
    [buzzer EXCEPT !.serial_connection = "none", !.is_connected = FALSE,
                   !.buzzer_state = "OFF"]

\* disconnect_from_arduino, reached through toggle_connection while connected
disconnect_from_arduino ==
    /\ BuzzerRuns
    /\ buzzer.is_connected
    /\ buzzer' = disconnected_buzzer
    /\ out' = Report("disconnect_from_arduino", "return", FALSE, FALSE, "none", "-",
                     "disconnected")
    /\ UNCHANGED <<integratedVars, app, storeVars>>

\* turn_buzzer_on / turn_buzzer_off with the send_command they call; their
\* buttons are enabled only while connected.  res is what the serial write
\* did: "ok", "timeout" (SerialTimeoutException), "serial_error"
\* (SerialException) or "error" (any other exception)
turn_buzzer(op, command, state, res) ==
    /\ BuzzerRuns
    /\ buzzer.is_connected
    /\ IF ~buzzer.is_connected \/ buzzer.serial_connection = "none"
       THEN /\ UNCHANGED buzzer
            /\ out' = Report(op, "return", FALSE, FALSE, "fail", "-",
                             "not_connected_error")
       ELSE /\ buzzer' = CASE res = "ok" -> [buzzer EXCEPT !.buzzer_state = state]
                           [] res = "serial_error" -> disconnected_buzzer
                           [] OTHER -> buzzer
            /\ out' = Report(op, "return", FALSE, FALSE, Res(res = "ok"), command,
                             IF res = "ok" THEN "none" ELSE res)
    /\ UNCHANGED <<integratedVars, app, storeVars>>

turn_buzzer_on(res) == turn_buzzer("turn_buzzer_on", "1", "ON", res)

turn_buzzer_off(res) == turn_buzzer("turn_buzzer_off", "0", "OFF", res)

WriteOutcomes == {"ok", "timeout", "serial_error", "error"}

\* on_closing of the buzzer window
buzzer_on_closing ==
    /\ BuzzerRuns
    /\ buzzer' = [(IF buzzer.is_connected THEN disconnected_buzzer ELSE buzzer)
                     EXCEPT !.destroyed = TRUE]
    /\ out' = Report("buzzer_on_closing", "return", FALSE, FALSE, "none", "-",
                     "destroyed")
    /\ UNCHANGED <<integratedVars, app, storeVars>>

----------------------------------------------------------------------------
(* The HTTP twin store: /mongodb/things of app.py, and the script            *)
(* insert_car_twin_mongodb.py that writes the same collection                *)

ThingIds == {"car", "sensor"}
Bodies == {"a", "b"}
\* the _id values MongoDB generates for documents inserted without one
ObjectIds == {"oid1"}

\* a stored document: _id, thingId, _revision (0: the field is absent) and
\* the rest of it
Thing(id, thingId, revision, body) ==
    [id |-> id, thingId |-> thingId, revision |-> revision, body |-> body]

\* the documents a filter {'thingId': thingId} matches
Matching(thingId) == {d \in things_collection : d.thingId = thingId}

\* existing_thing.get('_revision', 1)
get_revision(d) == IF d.revision = 0 THEN 1 ELSE d.revision

StoreRuns == app = "app.py"

Respond(op, thingId, status) == [op |-> op, thingId |-> thingId, status |-> status]

\* POST /mongodb/things: insert_one with _id = thingId and _revision = 1;
\* MongoDB refuses a second document with the same _id (duplicate key)
mongodb_things_POST(thingId, body) ==
    /\ StoreRuns
    /\ IF \E d \in things_collection : d.id = thingId
       THEN /\ UNCHANGED things_collection
            /\ response' = Respond("POST", thingId, 409)
       ELSE /\ things_collection' =
                   things_collection \cup {Thing(thingId, thingId, 1, body)}
            /\ response' = Respond("POST", thingId, 201)
    /\ UNCHANGED <<integratedVars, out, app, buzzer, requests>>

\* GET /mongodb/things: the list and its count
mongodb_things_GET ==
    /\ StoreRuns
    /\ response' = [op |-> "GET", thingId |-> "-", status |-> 200,
                    count |-> Cardinality(things_collection)]
    /\ UNCHANGED <<integratedVars, out, app, buzzer, things_collection, requests>>

\* a DELETE that removes every matching document (delete_many)
mongodb_thing_by_id_DELETE_many(thingId) ==
    /\ StoreRuns
    /\ IF Matching(thingId) = {}
       THEN /\ UNCHANGED things_collection
            /\ response' = Respond("DELETE", thingId, 404)
       ELSE /\ things_collection' = things_collection \ Matching(thingId)
            /\ response' = Respond("DELETE", thingId, 204)
    /\ UNCHANGED <<integratedVars, out, app, buzzer, requests>>

\* DELETE /mongodb/things/<thing_id>: delete_one removes one matching document
mongodb_thing_by_id_DELETE(thingId) ==
    /\ StoreRuns
    /\ IF Matching(thingId) = {}
       THEN /\ UNCHANGED things_collection
            /\ response' = Respond("DELETE", thingId, 404)
       ELSE /\ \E d \in Matching(thingId) :
                   things_collection' = things_collection \ {d}
            /\ response' = Respond("DELETE", thingId, 204)
    /\ UNCHANGED <<integratedVars, out, app, buzzer, requests>>

\* a request after its find_one: what it is, and the _revision of the
\* document it found (0 when it found none); its body comes into play with
\* its write
Request(op, thingId, seen) ==
    [op |-> op, thingId |-> thingId, seen |-> seen]

CanAccept == BagCardinality(requests) < MaxRequests

\* find_one({'thingId': thingId}) of a request that will write next
find_one(op, thingId) ==
    /\ CanAccept
    /\ IF Matching(thingId) = {}
       THEN requests' = requests (+) SetToBag({Request(op, thingId, 0)})
       ELSE \E d \in Matching(thingId) :
               /\ get_revision(d) < MaxRevision
               /\ requests' = requests
                     (+) SetToBag({Request(op, thingId, get_revision(d))})
    /\ response' = NoResponse
    /\ UNCHANGED <<integratedVars, out, app, buzzer, things_collection>>

\* PUT /mongodb/things/<thing_id> up to its find_one
mongodb_thing_by_id_PUT(thingId) ==
    /\ StoreRuns
    /\ find_one("PUT", thingId)

\* ... and its write: replace_one of a matching document by one whose _id is
\* thing_id (MongoDB refuses to change an _id), or insert_one; an exception
\* becomes the 500 of the handler
mongodb_thing_by_id_PUT_write(r, body) ==
    /\ StoreRuns
    /\ r \in BagToSet(requests) /\ r.op = "PUT"
    /\ requests' = requests (-) SetToBag({r})
    /\ IF r.seen # 0
       THEN IF Matching(r.thingId) = {}
            THEN /\ UNCHANGED things_collection
                 /\ response' = Respond("PUT", r.thingId, 204)
            ELSE \E d \in Matching(r.thingId) :
                    IF d.id # r.thingId
                    THEN /\ UNCHANGED things_collection
                         /\ response' = Respond("PUT", r.thingId, 500)
                    ELSE /\ things_collection' = (things_collection \ {d})
                               \cup {Thing(r.thingId, r.thingId, r.seen + 1, body)}
                         /\ response' = Respond("PUT", r.thingId, 204)
       ELSE IF \E d \in things_collection : d.id = r.thingId
            THEN /\ UNCHANGED things_collection
                 /\ response' = Respond("PUT", r.thingId, 500)
            ELSE /\ things_collection' =
                        things_collection \cup {Thing(r.thingId, r.thingId, 1, body)}
                 /\ response' = Respond("PUT", r.thingId, 201)
    /\ UNCHANGED <<integratedVars, out, app, buzzer>>

\* PATCH /mongodb/things/<thing_id> up to its find_one
mongodb_thing_by_id_PATCH(thingId) ==
    /\ StoreRuns
    /\ IF Matching(thingId) = {}
       THEN /\ response' = Respond("PATCH", thingId, 404)
            /\ UNCHANGED <<integratedVars, out, app, buzzer, things_collection, requests>>
       ELSE find_one("PATCH", thingId)

\* ... and its update_one with {'$set': patch_data}
mongodb_thing_by_id_PATCH_write(r, body) ==
    /\ StoreRuns
    /\ r \in BagToSet(requests) /\ r.op = "PATCH"
    /\ requests' = requests (-) SetToBag({r})
    /\ IF Matching(r.thingId) = {}
       THEN UNCHANGED things_collection
       ELSE \E d \in Matching(r.thingId) :
               things_collection' = (things_collection \ {d})
                   \cup {Thing(d.id, d.thingId, r.seen + 1, body)}
    /\ response' = Respond("PATCH", r.thingId, 204)
    /\ UNCHANGED <<integratedVars, out, app, buzzer>>

\* insert_car_twin_mongodb.py up to its find_one: the document is the twin
\* file, with thingId "car", no _id and no _revision
insert_car_digital_twin ==
    /\ StoreRuns
    /\ CanAccept
    /\ requests' = requests (+) SetToBag({Request("script", "car",
                        IF Matching("car") = {} THEN 0 ELSE 1)})
    /\ response' = NoResponse
    /\ UNCHANGED <<integratedVars, out, app, buzzer, things_collection>>

\* ... and its write: replace_one (the _id of the matched document stays), or
\* insert_one, for which MongoDB generates an ObjectId
insert_car_digital_twin_write(r) ==
    /\ StoreRuns
    /\ r \in BagToSet(requests) /\ r.op = "script"
    /\ requests' = requests (-) SetToBag({r})
    /\ IF r.seen # 0
       THEN IF Matching("car") = {}
            THEN UNCHANGED things_collection
            ELSE \E d \in Matching("car") :
                    things_collection' = (things_collection \ {d})
                        \cup {Thing(d.id, "car", 0, "a")}
       ELSE \E oid \in ObjectIds :
               /\ \A d \in things_collection : d.id # oid
               /\ things_collection' = things_collection \cup {Thing(oid, "car", 0, "a")}
    /\ response' = Respond("script", "car", IF r.seen # 0 THEN 200 ELSE 201)
    /\ UNCHANGED <<integratedVars, out, app, buzzer>>

StoreInit ==
    /\ twin = InitialTwin(FALSE, "OFF")
    /\ ProgramsIdle
    /\ app = "app.py"

StoreNext ==
    \/ \E t \in ThingIds, b \in Bodies : mongodb_things_POST(t, b)
    \/ mongodb_things_GET
    \/ \E t \in ThingIds : mongodb_thing_by_id_DELETE(t)
    \/ \E t \in ThingIds : mongodb_thing_by_id_PUT(t)
    \/ \E r \in BagToSet(requests), b \in Bodies : mongodb_thing_by_id_PUT_write(r, b)
    \/ \E t \in ThingIds : mongodb_thing_by_id_PATCH(t)
    \/ \E r \in BagToSet(requests), b \in Bodies : mongodb_thing_by_id_PATCH_write(r, b)
    \/ insert_car_digital_twin
    \/ \E r \in BagToSet(requests) : insert_car_digital_twin_write(r)

StoreSpec == StoreInit /\ [][StoreNext]_vars

\* a step of the integrated controller leaves the other program alone
Integrated == app = "IntegratedCarController" /\ UNCHANGED <<app, buzzer, storeVars>>

----------------------------------------------------------------------------

Next ==
    \/ Integrated /\ \E ioOk \in BOOLEAN : activate_horn_dt_only(ioOk)
    \/ Integrated /\ \E ioOk \in BOOLEAN : deactivate_horn_dt_only(ioOk)
    \/ Integrated /\ \E ok \in BOOLEAN : horn_dt_only_sent(ok)
    \/ Integrated /\ turn_horn_on_hw_only
    \/ Integrated /\ turn_horn_off_hw_only
    \/ Integrated /\ \E ok, ioOk \in BOOLEAN : horn_hw_only_sent(ok, ioOk)
    \/ Integrated /\ \E ioOk \in BOOLEAN : turn_horn_on_integrated(ioOk)
    \/ Integrated /\ \E ioOk \in BOOLEAN : turn_horn_off_integrated(ioOk)
    \/ Integrated /\ \E ok \in BOOLEAN : horn_integrated_sent(ok)
    \/ Integrated /\ sync_dt_to_hardware
    \/ Integrated /\ \E ok \in BOOLEAN : sync_dt_to_hardware_sent(ok)
    \/ Integrated /\ \E ioOk \in BOOLEAN : sync_hardware_to_dt(ioOk)
    \/ Integrated /\ click_auto_sync
    \/ Integrated /\ \E portOk \in BOOLEAN : connect_arduino(portOk)
    \/ Integrated /\ connect_arduino_ready
    \/ Integrated /\ disconnect_arduino
    \/ Integrated /\ on_closing
    \/ Integrated /\ on_closing_disconnect
    \/ Integrated /\ root_destroy
    \/ Integrated /\ join_thread_ended
    \/ Integrated /\ join_timed_out
    \/ Integrated /\ \E t \in WorkerThreads : worker_tick(t)
    \/ Integrated /\ \E t \in WorkerThreads : worker_send(t)
    \/ Integrated /\ \E t \in WorkerThreads, ok \in BOOLEAN : worker_sent(t, ok)
    \/ Integrated /\ \E t \in WorkerThreads : worker_set_state(t)
    \/ \E portOk \in BOOLEAN : connect_to_arduino(portOk)
    \/ disconnect_from_arduino
    \/ \E res \in WriteOutcomes : turn_buzzer_on(res)
    \/ \E res \in WriteOutcomes : turn_buzzer_off(res)
    \/ buzzer_on_closing

Spec == Init /\ [][Next]_vars

\* a step of some thread running auto_sync_worker
WorkerNext ==
    /\ Integrated
    /\ \E t \in WorkerThreads :
          \/ worker_tick(t)
          \/ worker_send(t)
          \/ \E ok \in BOOLEAN : worker_sent(t, ok)
          \/ worker_set_state(t)

\* the controller with its worker threads scheduled: a worker that can take a
\* step takes one (serial write returns or raises within write_timeout, sleep(1)
\* ends)
FairSpec == Init /\ [][Next]_vars /\ WF_vars(WorkerNext)

----------------------------------------------------------------------------
(* The controller left alone: from some moment on, connected and with       *)
(* auto-sync running, no callback runs any more and every serial write      *)
(* succeeds; only the worker threads take steps, and each loop iteration    *)
(* ends (the write returns within write_timeout, the sleep within 1 s).     *)

Quiet == [Idle EXCEPT !.pc = "quiet"]

\* the last foreground action has returned
no_further_action ==
    /\ app = "IntegratedCarController"
    /\ fg = Idle
    /\ connected /\ serial_connection = "open"
    /\ auto_sync_enabled /\ sync_running /\ LiveWorkers >= 1
    /\ fg' = Quiet
    /\ out' = Report("none", "quiet", FALSE, FALSE, "none", "-", "none")
    /\ UNCHANGED <<twinVars, connVars, hardware_horn_state, syncVars, app, buzzer,
                   storeVars>>

\* a step of a worker thread whose write, if it is in one, succeeds
worker_step(t) ==
    \/ worker_tick(t)
    \/ worker_send(t)
    \/ worker_sent(t, TRUE)
    \/ worker_set_state(t)

QuietStep == fg = Quiet /\ Integrated /\ \E t \in WorkerThreads : worker_step(t)

QuietNext ==
    \/ fg # Quiet /\ Next
    \/ no_further_action
    \/ QuietStep

QuietSpec == Init /\ [][QuietNext]_vars /\ WF_vars(QuietStep)

----------------------------------------------------------------------------
(* Derived views used by the properties *)

\* the orphans that are inside serial_connection.write
WritingOrphans ==
    BagCardinality([r \in {x \in BagToSet(orphans) : x.pc = "writing"} |-> orphans[r]])

\* the writes in flight on the Command Channel
Writers ==
    (IF fg.pc = "writing" THEN 1 ELSE 0)
    + (IF sync_thread.pc = "writing" THEN 1 ELSE 0)
    + WritingOrphans

\* the loop condition of auto_sync_worker is false
Cancelled == ~sync_running \/ ~connected

\* the worker threads that are inside an iteration of the loop
InTick(r) == r.pc \in {"send", "writing", "sethw"}
TicksInProgress ==
    (IF InTick(sync_thread) THEN 1 ELSE 0)
    + BagCardinality([r \in {x \in BagToSet(orphans) : InTick(x)} |-> orphans[r]])

\* the worker threads at position pc of auto_sync_worker
WorkersAt(pc) ==
    (IF sync_thread.pc = pc THEN 1 ELSE 0)
    + BagCardinality([r \in {x \in BagToSet(orphans) : x.pc = pc} |-> orphans[r]])

\* the step just taken ended a callback or a worker tick that called send_command
SendDone ==
    \/ out.op # "auto_sync_worker" /\ out.step = "return" /\ out.sendRes # "none"
    \/ out.op = "auto_sync_worker" /\ out.step = "set_state"

----------------------------------------------------------------------------
(* Properties *)

\* C1: HardwareObservedState tracks only successful sends: right after an
\* operation (or worker tick) whose send_command succeeded, hardware_horn_state
\* is the commanded value; right after one whose send_command failed, it is
\* what it was before.
C1_ObservedTracksSends ==
    SendDone =>
        /\ out.sendRes = "ok" => hardware_horn_state = HwOf(out.cmd)
        /\ out.sendRes = "fail" => hardware_horn_state = out.pre.hw

\* C2: the Command Channel never has two writes in flight at once.
C2_SingleWriter == Writers <= 1

\* C3: at most one auto_sync_worker thread is live at any time.
C3_SingleWorker == LiveWorkers <= 1

\* C4: once the call that disabled auto-sync (toggle_auto_sync reaching
\* stop_auto_sync) has returned, no auto_sync_worker thread is left running.
C4_DisableJoinsWorker ==
    (out.op = "toggle_auto_sync" /\ out.step = "return"
        /\ out.report = "auto_sync_disabled") => LiveWorkers = 0

\* C5: no write is in flight on a closed serial connection.
C5_NoWriteAfterClose == serial_connection = "closed" => Writers = 0

\* C6: when disconnect_arduino returns, auto-sync is neither enabled nor
\* running.
C6_DisconnectDisablesAutoSync ==
    (out.op \in {"disconnect_arduino", "on_closing_disconnect"} /\ out.step = "return")
        => ~auto_sync_enabled /\ ~sync_running /\ LiveWorkers = 0

HwStr(b) == IF b THEN "ON" ELSE "OFF"

\* the step just taken ended a reconcile that met no error: a manual
\* sync_dt_to_hardware or a worker tick whose send succeeded, or a tick that
\* found nothing to send
ReconciledOk ==
    \/ out.op = "sync_dt_to_hardware" /\ out.step = "return" /\ out.sendRes = "ok"
    \/ out.op = "auto_sync_worker" /\ out.step = "set_state" /\ out.sendRes = "ok"
    \/ out.op = "auto_sync_worker" /\ out.step = "tick" /\ out.cmd = "-"

\* C7: after a reconcile (manual sync_dt_to_hardware or one worker tick) has
\* returned with no error, HardwareObservedState equals what get_horn_status
\* returns; stated here for a twin record that holds ON or OFF.
C7_ReconcileReachesTwinState ==
    (twin.loaded /\ ReconciledOk) => HwState = get_horn_status(twin)

ReconcileBegan ==
    \/ out.op = "sync_dt_to_hardware" /\ out.step = "call"
    \/ out.op = "auto_sync_worker" /\ out.step = "tick"

C10_EveryActivationCounts ==
    (out.op = "activate_horn_dt_only" /\ out.wrote /\ out.storeOk)
        => twin.activationCount = out.pre.count + 1

\* a second successful activation in a row: the twin was ON already
C10_Witness ==
    /\ out.op = "activate_horn_dt_only" /\ out.wrote /\ out.storeOk
    /\ out.pre.state = "ON" /\ out.pre.count = 1
    /\ twin.activationCount = 2

C12_OffLeavesActivationAlone ==
    (out.op = "deactivate_horn_dt_only" /\ out.wrote)
        => /\ twin.activationCount = out.pre.count
           /\ twin.lastActivated = out.pre.last
           /\ twin.loaded => twin.state = "OFF" /\ twin.revision = out.pre.rev + 1

\* a deactivation of a twin that was ON and had been activated once
C12_Witness ==
    /\ out.op = "deactivate_horn_dt_only" /\ out.wrote
    /\ out.pre.state = "ON" /\ out.pre.count = 1 /\ out.pre.last > 0
    /\ twin.state = "OFF" /\ twin.activationCount = 1

DtOnly == {"activate_horn_dt_only", "deactivate_horn_dt_only"}

\* C13: activate/deactivate_horn_dt_only write the twin first and attempt the
\* hardware push only if that write succeeded: when set_horn_status fails the
\* handler returns without calling send_command and HardwareObservedState is
\* as it was, and every command these handlers send follows a successful write.
C13_StoreFirstThenPush ==
    /\ (out.op \in DtOnly /\ out.wrote /\ ~out.storeOk)
        => /\ out.step = "return" /\ fg.pc = "idle"
           /\ out.sendRes = "none" /\ out.cmd = "-"
           /\ hardware_horn_state = out.pre.hw
    /\ (out.op \in DtOnly /\ out.cmd # "-") => out.storeOk
    /\ (fg.op \in DtOnly /\ fg.pc = "writing") => fg.storeOk

\* connected, the twin write failed, and nothing was sent
C13_Witness ==
    /\ out.op = "activate_horn_dt_only" /\ out.wrote /\ ~out.storeOk
    /\ connected /\ serial_connection = "open"
    /\ out.sendRes = "none" /\ out.report = "error_dt_update_failed"

\* C14: when the send fails during activate_horn_dt_only while connected, the
\* twin is already updated (state ON, activationCount incremented),
\* HardwareObservedState is left as it was, and the report is the partial one
\* (twin ok, hardware failed), which is given for no other outcome: the
\* full-success report goes with a successful send and the failure report
\* with a failed twin write.
C14_PartialSuccessOnSendFailure ==
    /\ (out.op = "activate_horn_dt_only" /\ out.step = "return" /\ out.sendRes = "fail")
        => /\ twin.state = "ON" /\ twin.activationCount >= 1
           /\ twin.activationCount = out.pre.count + (IF out.wrote THEN 1 ELSE 0)
           /\ hardware_horn_state = out.pre.hw
           /\ out.report = "dt_ok_hw_sync_failed"
    /\ (out.op \in DtOnly /\ out.step = "return")
        => /\ out.report = "dt_ok_hw_sync_failed" <=> (out.storeOk /\ out.sendRes = "fail")
           /\ out.report = "dt_ok_hw_synced" <=> (out.storeOk /\ out.sendRes = "ok")
           /\ out.report = "error_dt_update_failed" <=> ~out.storeOk

\* the serial write of '1' failed after the twin had been set to ON
C14_Witness ==
    /\ out.op = "activate_horn_dt_only" /\ out.step = "return" /\ out.sendRes = "fail"
    /\ connected /\ out.cmd = "1" /\ ~out.wrote
    /\ twin.state = "ON" /\ twin.activationCount = 1 /\ ~hardware_horn_state
    /\ out.report = "dt_ok_hw_sync_failed"

HwOnly == {"turn_horn_on_hw_only", "turn_horn_off_hw_only"}

\* C15: turn_horn_on/off_hw_only send first and write the twin only after a
\* successful send: up to the return of send_command, and after a failed send,
\* the twin record is not modified at all; when the send succeeded and the
\* twin write failed, HardwareObservedState holds the commanded value and the
\* report is the partial one (hardware ok, twin failed).
C15_PushFirstThenStore ==
    /\ (out.op \in HwOnly /\ (out.step = "call" \/ out.sendRes = "fail"))
        => /\ ~out.wrote
           /\ get_horn_status(twin) = out.pre.state
           /\ twin.activationCount = out.pre.count
           /\ twin.lastActivated = out.pre.last
           /\ twin.revision = out.pre.rev
    /\ (out.op \in HwOnly /\ out.wrote) => out.sendRes = "ok"
    /\ (out.op \in HwOnly /\ out.sendRes = "ok" /\ ~out.storeOk)
        => /\ hardware_horn_state = HwOf(out.cmd)
           /\ out.report = "hw_ok_dt_sync_failed"
    /\ (out.op \in HwOnly /\ out.step = "return" /\ out.storeOk)
        => out.report = "hw_ok_dt_synced"

\* '1' went out, the twin file could not be written: observed ON, partial report
C15_Witness ==
    /\ out.op = "turn_horn_on_hw_only" /\ out.sendRes = "ok" /\ ~out.storeOk
    /\ twin.loaded /\ out.pre.hw = FALSE /\ hardware_horn_state
    /\ out.report = "hw_ok_dt_sync_failed"

OnOps == {"activate_horn_dt_only", "turn_horn_on_hw_only", "turn_horn_on_integrated",
          "turn_buzzer_on"}
OffOps == {"deactivate_horn_dt_only", "turn_horn_off_hw_only",
           "turn_horn_off_integrated", "turn_buzzer_off"}

\* the step just taken handed a command to serial_connection.write: a
\* callback of the integrated controller entered its write, a worker passed
\* the guard of send_command, or a buzzer callback ran its send_command
BeganWrite ==
    \/ out.step = "call" /\ out.cmd # "-"
    \/ out.op = "auto_sync_worker" /\ out.step = "send" /\ out.sendRes = "none"
    \/ out.op \in {"turn_buzzer_on", "turn_buzzer_off"} /\ out.cmd # "-"

\* the bytes that write was given
written == IF BeganWrite THEN encode(out.cmd) ELSE << >>

\* the commands held by the threads that are in or about to enter a write
CommandsInFlight ==
    (IF fg.pc = "writing" THEN {fg.cmd} ELSE {})
    \cup {t.rec.cmd : t \in {w \in WorkerThreads :
                                w.rec.pc \in {"send", "writing", "sethw"}}}

\* C16: every write to the command channel, by any operation of either
\* controller and by the auto-sync worker, is given exactly one byte, ASCII
\* '1' (49) or '0' (48); the ON operations send '1' and the OFF operations
\* '0', and a reconcile sends '1' exactly when the twin state it read is ON
\* (so '0' for a twin read as OFF).
C16_OneByteCommands ==
    /\ BeganWrite
        => /\ Len(written) = 1
           /\ written \in {<<48>>, <<49>>}
           /\ out.op \in OnOps => written = <<49>>
           /\ out.op \in OffOps => written = <<48>>
    /\ ((out.op = "sync_dt_to_hardware" /\ out.step = "call")
            \/ (out.op = "auto_sync_worker" /\ out.step = "tick" /\ out.cmd # "-"))
        => /\ out.cmd = "1" <=> out.pre.state = "ON"
           /\ out.pre.state = "OFF" => out.cmd = "0"
    /\ CommandsInFlight \subseteq {"0", "1"}

\* a worker thread enters the write of '1' for a twin that is ON
C16_Witness ==
    /\ out.op = "auto_sync_worker" /\ out.step = "send" /\ out.sendRes = "none"
    /\ written = <<49>> /\ twin.state = "ON" /\ ~hardware_horn_state
    /\ sync_thread.pc = "writing"

FullSuccess == {"dt_ok_hw_synced", "hw_ok_dt_synced", "both_dt_and_hw",
                "synced_dt_to_hw", "synced_hw_to_dt"}

\* C17: a partial outcome is never reported as full success: when the twin
\* write of an operation succeeded and its hardware send failed, the operation
\* (turn_horn_on/off_integrated included) does not report success on both
\* sides and does not record the hardware as updated.
C17_PartialNeverFullSuccess ==
    (out.step = "return" /\ out.storeOk /\ out.sendRes = "fail")
        => /\ out.report \notin FullSuccess
           /\ hardware_horn_state = out.pre.hw

\* C18: a POST /mongodb/things whose thingId is not yet stored creates the
\* Thing with _revision 1 and answers 201; a POST whose thingId is already
\* stored answers 409 and leaves the collection unchanged; so no POST, in any
\* sequence or interleaving, leaves a second Thing with its thingId stored.
C18_PostCreatesOncePerThingId ==
    [][response'.op = "POST" =>
          /\ IF Matching(response'.thingId) = {}
             THEN /\ response'.status = 201
                  /\ \E b \in Bodies : things_collection' = things_collection
                         \cup {Thing(response'.thingId, response'.thingId, 1, b)}
             ELSE /\ response'.status = 409
                  /\ things_collection' = things_collection
          /\ Cardinality({d \in things_collection' :
                             d.thingId = response'.thingId}) <= 1]_vars

\* C19: a DELETE /mongodb/things/<thingId> that answers 204 removes exactly
\* one Thing, one with that thingId: the count GET /mongodb/things lists goes
\* down by exactly one and every other Thing is unchanged; a DELETE for a
\* thingId that is not stored answers 404 and changes nothing.
C19_DeleteRemovesExactlyOne ==
    [][/\ response'.op = "DELETE" =>
            IF Matching(response'.thingId) = {}
            THEN /\ response'.status = 404
                 /\ things_collection' = things_collection
            ELSE /\ response'.status = 204
                 /\ things_collection' \subseteq things_collection
                 /\ Cardinality(things_collection') = Cardinality(things_collection) - 1
                 /\ (things_collection \ things_collection')
                        \subseteq Matching(response'.thingId)
       /\ response'.op = "GET" =>
            /\ response'.count = Cardinality(things_collection)
            /\ things_collection' = things_collection]_vars

\* a DELETE answered 204 and a Thing with another thingId is still stored
C19_Witness ==
    /\ response.op = "DELETE" /\ response.status = 204
    /\ Matching(response.thingId) = {}
    /\ \E d \in things_collection : d.thingId # response.thingId

C21_EnabledMeansWorker ==
    (connected /\ auto_sync_enabled) => LiveWorkers >= 1

\* C22: cancellation is cooperative and effective.  While sync_running is
\* cleared or the controller is disconnected no worker begins another
\* iteration; and once auto-sync is disabled for good, or the controller is
\* disconnected for good, every auto_sync_worker thread eventually ends and
\* none runs afterwards.
C22_CancelledWorkerTerminates ==
    /\ [][Cancelled => TicksInProgress' <= TicksInProgress]_vars
    /\ (<>[](~sync_running) \/ <>[](~connected)) => <>[](LiveWorkers = 0)

\* a worker has just left its loop after auto-sync was switched off while
\* connected, and no worker is left
C22_Witness ==
    /\ out.op = "auto_sync_worker" /\ out.step = "exit"
    /\ connected /\ ~sync_running
    /\ LiveWorkers = 0

\* C23: set_horn_status is all-or-nothing: after a call that returned failure
\* the twin's state, activationCount, lastActivated and revision are what
\* they were before the call, and get_horn_status returns the former state.
C23_FailedWriteChangesNothing ==
    (out.wrote /\ ~out.storeOk)
        => /\ get_horn_status(twin) = out.pre.state
           /\ twin.activationCount = out.pre.count
           /\ twin.lastActivated = out.pre.last
           /\ twin.revision = out.pre.rev

C25_DisconnectKeepsObservedState ==
    (out.op \in {"disconnect_arduino", "on_closing_disconnect"})
        => hardware_horn_state = out.pre.hw

\* a disconnect with auto-sync enabled that left the observed state ON
C25_Witness ==
    /\ out.op = "disconnect_arduino" /\ out.step = "return"
    /\ ~connected /\ auto_sync_enabled
    /\ out.pre.hw /\ hardware_horn_state

\* the fields of the twin document the controller has no business with
Opaque(t) == [thingId |-> t.thingId, manufacturer |-> t.attributes.manufacturer,
              model |-> t.attributes.model, hardware |-> t.hardware]

C27_EveryWriteAdvancesRevision ==
    (out.wrote /\ out.storeOk)
        => /\ twin.revision = out.pre.rev + 1
           /\ twin.modified = clock - 1
           /\ twin.attributes.lastModified = twin.modified

\* a successful write of OFF over a twin that was OFF
C27_Witness ==
    /\ out.op = "deactivate_horn_dt_only" /\ out.wrote /\ out.storeOk
    /\ out.pre.state = "OFF" /\ twin.state = "OFF"
    /\ twin.revision = out.pre.rev + 1

\* C28: send_command called while no connection is open returns failure and
\* hands nothing to the serial port, and a send is never tried again: a worker
\* calls send_command only at the start of an iteration and enters the write
\* only from that call, and a callback enters its write only when it is called,
\* so each invocation and each tick makes at most one write attempt.
C28_NoWriteUnconnectedNoRetry ==
    /\ []((out.op = "auto_sync_worker" /\ out.step = "send" /\ ~send_command_guard)
            => out.sendRes = "fail" /\ ~BeganWrite /\ written = << >>)
    /\ []((BeganWrite /\ out.op \notin {"turn_buzzer_on", "turn_buzzer_off"})
            => send_command_guard)
    /\ [][/\ WorkersAt("send")' > WorkersAt("send")
                => WorkersAt("loop")' < WorkersAt("loop")
          /\ WorkersAt("writing")' > WorkersAt("writing")
                => WorkersAt("send")' < WorkersAt("send")
          /\ fg'.pc = "writing" => fg.pc = "idle" \/ fg' = fg]_vars

\* a worker that was about to send when the controller disconnected: its
\* send_command returned False without a write
C28_Witness ==
    /\ out.op = "auto_sync_worker" /\ out.step = "send" /\ out.sendRes = "fail"
    /\ ~connected /\ serial_connection = "closed"
    /\ Writers = 0

\* C29: a reconcile in the twin-to-hardware direction never modifies the twin:
\* no step of sync_dt_to_hardware and no step of an auto_sync_worker changes
\* the state, activationCount, lastActivated or revision, whether the send
\* succeeded or failed.
C29_ReconcileLeavesTwin ==
    (out.op \in {"sync_dt_to_hardware", "auto_sync_worker"})
        => /\ get_horn_status(twin) = out.pre.state
           /\ twin.activationCount = out.pre.count
           /\ twin.lastActivated = out.pre.last
           /\ twin.revision = out.pre.rev

\* a manual sync whose send succeeded and changed the observed state, the twin
\* being as before
C29_Witness ==
    /\ out.op = "sync_dt_to_hardware" /\ out.step = "return" /\ out.sendRes = "ok"
    /\ hardware_horn_state # out.pre.hw
    /\ twin.loaded /\ twin.revision = out.pre.rev /\ twin.state = out.pre.state

\* C30: in the HTTP twin store every PUT-update or PATCH of an existing Thing
\* that answers 204 raises the _revision of that Thing by exactly 1 over what
\* it was just before the write, also when another update of the same thingId
\* is handled at the same time, so that n successful updates raise it by n.
C30_EveryUpdateRaisesRevision ==
    [][(/\ response'.op \in {"PUT", "PATCH"} /\ response'.status = 204
        /\ Matching(response'.thingId) # {})
          => \E d \in Matching(response'.thingId) :
                \E e \in things_collection' :
                    /\ e.id = d.id /\ e.thingId = d.thingId
                    /\ e.revision = get_revision(d) + 1]_vars

====
